---------------------------- MODULE Spec2Model ----------------------------
(***************************************************************************)
(* Token-bucket throttle of utils/api_throttler.py (class APIThrottler)    *)
(* and its scoped-acquisition wrapper, as a state machine of concurrent    *)
(* caller threads sharing one throttle instance.                           *)
(*                                                                         *)
(* Time is counted in ticks of the polling quantum (time.sleep(0.01), one  *)
(* tick = 10 ms).  time.time() is read as the variable now, which never    *)
(* decreases.  Token counts are Python floats; they are kept here as exact *)
(* multiples of 1/TokenUnit of a token, so 1.0 token is TokenUnit units    *)
(* and a rate is a whole number of units per tick.  Float rounding is not  *)
(* modelled.                                                               *)
(*                                                                         *)
(* The instance modelled is APIThrottler(rate_limits=RateLimits,           *)
(* capacity=Capacity) with positive capacity and rates.                    *)
(***************************************************************************)
EXTENDS Integers, Sequences, FiniteSets, TLC

\* ------------------------------------------------------------------ bounds

\* Units per token: tokens are tracked in steps of 1/TokenUnit.
TokenUnit == 2

\* Bucket capacity handed to the constructor, in whole tokens.
Capacity == 2

\* The clock stops advancing at MaxTime ticks.
MaxTime == 2

\* Largest timeout, in ticks, a caller passes.
MaxTimeout == 1

\* ------------------------------------------------------------- constants

\* time.sleep(0.01): the polling quantum, one tick.
SleepTicks == 1

\* The concurrent caller threads: two.
Threads == {1, 2}

NoThread == 0

\* Python None as a provider argument.
None == "None"

\* Python None as a timeout argument: wait indefinitely.
NoTimeout == -1

\* A dictionary key that is not present.
Absent == -1

\* _default_throttler = None: no instance.
NoInstance == 0

\* The empty provider name, falsy in Python.
EmptyName == ""

\* self._rate_limits after the constructor merged the defaults with the
\* overrides: units of 1/TokenUnit token per tick.
RateLimits == [yfinance |-> 1, openai |-> 3, default |-> 2]

RateNames == DOMAIN RateLimits

\* Provider names the callers pass: one in the rate table, one unknown.
Providers == {"yfinance", "x"}

\* The callers of one provider only.
OneProvider == {"yfinance"}

\* Every name that can key a bucket.
Names == RateNames \cup Providers \cup {EmptyName}

Timeouts == {NoTimeout} \cup (0 .. MaxTimeout)

ResetArgs == OneProvider \cup {None, EmptyName}

\* The callers of a provider the rate table does not hold.
UnknownProvider == {"x"}

\* reset's arguments of those callers: the name, or none.
ResetNames == UnknownProvider \cup {None}

\* The names the rate table does not hold.
UnknownNames == Names \ RateNames

\* 1.0 token in token units.
OneToken == TokenUnit

Min(a, b) == IF a <= b THEN a ELSE b

Max(a, b) == IF a >= b THEN a ELSE b

\* ----------------------------------------------------------------- state

VARIABLES
    now,            \* time.time()
    default_throttler,  \* the module global _default_throttler
    instances,      \* APIThrottler instances get_throttler has constructed
    fresh,          \* the instance a caller of get_throttler constructed
    capacity,       \* self._capacity, in whole tokens
    rate_limits,    \* self._rate_limits: name -> units per tick
    tokens,         \* self._tokens: name -> units, or Absent
    last_update,    \* self._last_update: name -> time, or Absent
    lock,           \* self._lock: the thread holding it, or NoThread
    pc,             \* each thread's position
    provider,       \* api_provider argument of the running call
    timeout,        \* timeout argument of the running call
    start_time,     \* acquire_token's start_time
    current_time,   \* current_time read inside the critical section
    wake,           \* when the running time.sleep ends
    via,            \* TRUE when the call came through throttle().__enter__
    acquired,       \* ThrottleContext.acquired
    result,         \* what the finished call returned or raised
    exc,            \* what became of an exception raised in the guarded block
    attempts,       \* critical sections entered by the running acquire_token
    sleeps,         \* sleeps started by the running acquire_token
    consumed,       \* decrements done by the running acquire_token
    rec,            \* which histories this run records
    burst,          \* grants since the bucket was last set full
    fullAt,         \* the time the bucket was last set full (creation, reset)
    baseTok,        \* tokens right after the last creation, grant or reset
    baseTime,       \* _last_update at the last creation, grant or reset
    grantLog,       \* grants per clock value read by the granting section
    retLog,         \* grants per instant at which acquire_token returned True
    created,        \* times _refill_tokens initialised the bucket (line 94)
    maker,          \* TRUE when the caller's current critical section did so
    zeroAt,         \* the clock reading of the grant that left the bucket at 0
    since,          \* grants after that one
    late            \* TRUE when time passed in the caller's acquire_token
                    \* other than for the length of a sleep (line 159)

\* The singleton registry of get_throttler.
registry == <<default_throttler, instances, fresh>>

\* What the constructor was given and keeps.
config == <<capacity, rate_limits>>

\* The throttle's own state.
shared == <<tokens, last_update, lock>>

\* A caller's local state.
locals == <<pc, provider, timeout, start_time, current_time, wake, via,
            acquired, result, exc>>

\* Per-call counters, kept for the properties only.
counts == <<attempts, sleeps, consumed>>

\* Histories, kept for the properties only.
hist == <<rec, burst, fullAt, baseTok, baseTime, grantLog, retLog>>

\* More histories, kept for the properties only.
marks == <<created, maker, zeroAt, since, late>>

vars == <<now, registry, config, shared, locals, counts, hist, marks>>

\* self._capacity in token units.
CapUnits == capacity * TokenUnit

\* Positions inside a `with self._lock:` block.
AcquireCS == {"acq_refill", "acq_test", "acq_dec", "acq_granted", "acq_unlock"}

AvailCS == {"avail_body", "avail_ret"}

ResetCS == {"reset_body", "reset_unlock"}

CriticalPcs == AcquireCS \cup AvailCS \cup ResetCS

NoResult == [kind |-> "none"]

\* The capacity arguments a constructor call may pass: the constructor
\* takes any int.
CapacityArgs == {-1, 0, Capacity}

\* The rates a rate_limits argument may give "yfinance".
RateArgs == {0, RateLimits["yfinance"]}

\* __init__ lines 61-63: empty dictionaries, a free lock; no call running.
InitCalls ==
    /\ now = 0
    /\ default_throttler = NoInstance
    /\ instances = 0
    /\ fresh = [t \in Threads |-> NoInstance]
    /\ tokens = [n \in Names |-> Absent]
    /\ last_update = [n \in Names |-> Absent]
    /\ lock = NoThread
    /\ pc = [t \in Threads |-> "idle"]
    /\ provider = [t \in Threads |-> None]
    /\ timeout = [t \in Threads |-> NoTimeout]
    /\ start_time = [t \in Threads |-> 0]
    /\ current_time = [t \in Threads |-> 0]
    /\ wake = [t \in Threads |-> 0]
    /\ via = [t \in Threads |-> FALSE]
    /\ acquired = [t \in Threads |-> FALSE]
    /\ result = [t \in Threads |-> NoResult]
    /\ exc = [t \in Threads |-> "none"]
    /\ attempts = [t \in Threads |-> 0]
    /\ sleeps = [t \in Threads |-> 0]
    /\ consumed = [t \in Threads |-> 0]
    /\ burst = [n \in Names |-> 0]
    /\ fullAt = [n \in Names |-> Absent]
    /\ baseTok = [n \in Names |-> Absent]
    /\ baseTime = [n \in Names |-> Absent]
    /\ grantLog = [n \in Names |-> [i \in 0 .. MaxTime |-> 0]]
    /\ retLog = [n \in Names |-> [i \in 0 .. MaxTime |-> 0]]
    /\ created = [n \in Names |-> 0]
    /\ maker = [t \in Threads |-> FALSE]
    /\ zeroAt = [n \in Names |-> Absent]
    /\ since = [n \in Names |-> 0]
    /\ late = [t \in Threads |-> FALSE]

\* __init__ lines 59-60 given capacity=Capacity and rates that merge to
\* RateLimits.
InitState ==
    /\ InitCalls
    /\ capacity = Capacity
    /\ rate_limits = RateLimits

\* __init__ lines 59-60 given any of the arguments: they are stored as
\* they come.
InitAnyConfig ==
    /\ InitCalls
    /\ capacity \in CapacityArgs
    /\ rate_limits \in {[RateLimits EXCEPT !["yfinance"] = r] : r \in RateArgs}
    /\ rec = {}

\* No history is recorded.
Init == InitState /\ rec = {}

\* The grants since each bucket was last full are recorded.
InitBurst == InitState /\ rec = {"burst"}

\* The bucket as the last creation, grant or reset left it is recorded.
InitBase == InitState /\ rec = {"base"}

\* The grants are logged by time.
InitLog == InitState /\ rec = {"log"}

\* The initialisations of each bucket are counted.
InitCreate == InitState /\ rec = {"create"}

\* The grants after a bucket was emptied are counted.
InitWait == InitState /\ rec = {"wait"}

\* Nothing is recorded or counted: the calls may run for ever.
InitLive == InitState /\ rec = {"live"}

\* ------------------------------------------------------- pure functions

\* _get_rate_limit falling back to the entry of "yfinance".
GetRateLimitFirstEntry(p) ==
    IF p \in DOMAIN rate_limits THEN rate_limits[p] ELSE rate_limits["yfinance"]

\* _get_rate_limit returning the "default" entry for every name.
GetRateLimitDefault(p) == rate_limits["default"]

\* _get_rate_limit returning 0.0 for every name.
GetRateLimitZero(p) == 0

\* _get_rate_limit: exact-name lookup, falling back to "default".
GetRateLimit(p) ==
    IF p \in DOMAIN rate_limits THEN rate_limits[p] ELSE rate_limits["default"]

\* _refill_tokens with the min(self._capacity, ...) of line 105 left out.
RefillTokensUncapped(p, ct) ==
    IF last_update[p] = Absent
    THEN [tokens EXCEPT ![p] = CapUnits]
    ELSE [tokens EXCEPT ![p] = @ + (ct - last_update[p]) * GetRateLimit(p)]

\* _refill_tokens with line 93 testing for a missing or empty bucket
\* (`if not self._tokens.get(api_provider)`): an emptied bucket is
\* initialised again.
RefillTokensFillsEmpty(p, ct) ==
    IF last_update[p] = Absent \/ tokens[p] = 0
    THEN [tokens EXCEPT ![p] = CapUnits]
    ELSE [tokens EXCEPT ![p] =
            Min(CapUnits, @ + (ct - last_update[p]) * GetRateLimit(p))]

\* _refill_tokens adding whole tokens only: line 101 truncated with int().
RefillTokensWhole(p, ct) ==
    IF last_update[p] = Absent
    THEN [tokens EXCEPT ![p] = CapUnits]
    ELSE LET tokens_to_add == (ct - last_update[p]) * GetRateLimit(p)
         IN [tokens EXCEPT ![p] =
               Min(CapUnits, @ + (tokens_to_add \div OneToken) * OneToken)]

\* _refill_tokens: the new _tokens dictionary.
RefillTokens(p, ct) ==
    IF last_update[p] = Absent
    THEN [tokens EXCEPT ![p] = CapUnits]
    ELSE LET time_elapsed == ct - last_update[p]
             tokens_to_add == time_elapsed * GetRateLimit(p)
             current_tokens == IF tokens[p] = Absent THEN 0 ELSE tokens[p]
         IN [tokens EXCEPT ![p] = Min(CapUnits, current_tokens + tokens_to_add)]

\* _refill_tokens with the assignment of line 109 left out: only the
\* creation of a bucket sets its _last_update.
RefillLastUpdateStale(p, ct) ==
    IF last_update[p] = Absent THEN [last_update EXCEPT ![p] = ct]
    ELSE last_update

\* _refill_tokens keeping one refill time for all buckets: line 109 moves
\* the _last_update of every bucket that exists.
RefillLastUpdateAll(p, ct) ==
    [n \in Names |-> IF n = p \/ last_update[n] # Absent THEN ct
                     ELSE last_update[n]]

\* _refill_tokens: the new _last_update dictionary.
RefillLastUpdate(p, ct) == [last_update EXCEPT ![p] = ct]

\* _refill_tokens line 93: the names it creates a bucket for.
RefillCreates(p) == IF last_update[p] = Absent THEN {p} ELSE {}

\* Line 139 comparing with 0.0 instead of 1.0.
HasTokenOrNone(p) == tokens[p] >= 0

\* acquire_token line 139: is a whole token there.
HasToken(p) == tokens[p] >= OneToken

\* Line 151 with > for >=.
TimedOutLate(t) == timeout[t] # NoTimeout /\ now - start_time[t] > timeout[t]

\* Line 149 without the `timeout is not None` test: None counts as 0.
TimedOutNoneAsZero(t) ==
    now - start_time[t] >= (IF timeout[t] = NoTimeout THEN 0 ELSE timeout[t])

\* Lines 149-151 with a deadline that never passes.
TimedOutNever(t) == FALSE

\* Line 151 with a deadline two polling intervals too long.
TimedOutPadded(t) ==
    timeout[t] # NoTimeout /\ now - start_time[t] >= timeout[t] + 2 * SleepTicks

\* acquire_token lines 149-151: has the deadline passed.
TimedOut(t) == timeout[t] # NoTimeout /\ now - start_time[t] >= timeout[t]

\* reset: the names it sets full: the named one when the argument is truthy
\* (line 233), every key of self._rate_limits otherwise (line 239).
ResetTargets(a) == IF a \in {None, EmptyName} THEN RateNames ELSE {a}

\* ------------------------------------------------------------- observers

\* The histories once the buckets named in S were set full at time ct.
BurstAfterFull(S) ==
    IF "burst" \in rec
    THEN [n \in Names |-> IF n \in S THEN 0 ELSE burst[n]] ELSE burst

FullAtAfterFull(S, ct) ==
    IF "burst" \in rec
    THEN [n \in Names |-> IF n \in S THEN ct ELSE fullAt[n]] ELSE fullAt

BaseTokAfterFull(S) ==
    IF "base" \in rec
    THEN [n \in Names |-> IF n \in S THEN CapUnits ELSE baseTok[n]]
    ELSE baseTok

BaseTimeAfterFull(S, ct) ==
    IF "base" \in rec
    THEN [n \in Names |-> IF n \in S THEN ct ELSE baseTime[n]] ELSE baseTime

\* The histories once a token of p was granted.
BurstAfterGrant(p) ==
    IF "burst" \in rec THEN [burst EXCEPT ![p] = @ + 1] ELSE burst

Logged(log, p, at) ==
    IF "log" \in rec /\ at \in 0 .. MaxTime
    THEN [log EXCEPT ![p][at] = @ + 1] ELSE log

\* The creations counted once _refill_tokens ran for p.
CreatedAfterRefill(p) ==
    IF "create" \in rec
    THEN [n \in Names |-> IF n \in RefillCreates(p) THEN created[n] + 1
                          ELSE created[n]]
    ELSE created

\* Did the critical section of t initialise the bucket of p.
MakerAfterRefill(t, p) ==
    IF "create" \in rec
    THEN [maker EXCEPT ![t] = RefillCreates(p) # {}] ELSE maker

\* The clock reading of the grant that first left the bucket of p at 0,
\* once a grant read the clock at ct and left tk tokens.
ZeroAtAfterGrant(p, tk, ct) ==
    IF "wait" \in rec /\ zeroAt[p] = Absent /\ tk = 0
    THEN [zeroAt EXCEPT ![p] = ct] ELSE zeroAt

\* The grants after the one that left the bucket of p at 0.
SinceAfterGrant(p) ==
    IF "wait" \in rec /\ zeroAt[p] # Absent
    THEN [since EXCEPT ![p] = @ + 1] ELSE since

\* A per-call counter after one more attempt or sleep of t; the counters
\* stand still where calls may run for ever.
Counted(c, t) == IF "live" \in rec THEN c ELSE [c EXCEPT ![t] = c[t] + 1]

\* A stored clock reading one tick further in the past, as far back as
\* the clock window of MaxTime ticks reaches.
Older(x) == IF x = Absent THEN Absent ELSE Max(0, x - 1)

\* The bounded clock: time passes only up to MaxTime.
ClockRuns == now < MaxTime

\* --------------------------------------------------------------- actions

\* Time passes: the next reading of time.time() is one tick later.
Tick ==
    /\ ClockRuns
    /\ now' = now + 1
    /\ UNCHANGED <<registry, config, shared, locals, counts, hist, marks>>

\* Time passes without end: the clock counts up to MaxTime and from then
\* on keeps that reading while every stored reading moves one tick into
\* the past, so that the differences the code computes (elapsed times,
\* the rest of a sleep) grow as they do under a running clock, up to the
\* window of MaxTime ticks.
TickOn ==
    /\ IF ClockRuns
       THEN /\ now' = now + 1
            /\ UNCHANGED <<last_update, start_time, current_time, wake>>
       ELSE /\ now' = now
            /\ last_update' = [n \in Names |-> Older(last_update[n])]
            /\ start_time' = [t \in Threads |-> Older(start_time[t])]
            /\ current_time' = [t \in Threads |-> Older(current_time[t])]
            /\ wake' = [t \in Threads |-> Older(wake[t])]
    /\ UNCHANGED <<registry, config, tokens, lock, pc, provider, timeout,
                   via, acquired, result, exc, counts, hist, marks>>

\* t is in time.sleep(0.01) and the 10 ms are not over.
Asleep(t) == pc[t] = "acq_sleep" /\ now < wake[t]

\* t is between the first line of acquire_token and its return.
InAcquire(t) == pc[t] \in AcquireCS \cup {"acq_lock", "acq_check", "acq_sleep"}

\* Time passes, but not while a caller waits for the lock: taking it costs
\* no time. Any other statement of acquire_token may take time, and
\* time.sleep may return late.
TickTimed ==
    /\ ClockRuns
    /\ \A t \in Threads : pc[t] # "acq_lock"
    /\ now' = now + 1
    /\ late' = [t \in Threads |-> late[t] \/ (InAcquire(t) /\ ~Asleep(t))]
    /\ UNCHANGED <<registry, config, shared, locals, counts, hist,
                   created, maker, zeroAt, since>>

\* acquire_token(p, to) is called directly: lines 131-134.
CallAcquire(t, P, TO) ==
    /\ pc[t] = "idle"
    /\ \E p \in P, to \in TO :
        /\ provider' = [provider EXCEPT ![t] = p]
        /\ timeout' = [timeout EXCEPT ![t] = to]
    /\ start_time' = [start_time EXCEPT ![t] = now]
    /\ via' = [via EXCEPT ![t] = FALSE]
    /\ pc' = [pc EXCEPT ![t] = "acq_lock"]
    /\ UNCHANGED <<now, registry, config, exc, marks, shared, current_time, wake, acquired, result,
                   counts, hist>>

\* `with throttle(p, to):` is entered: ThrottleContext.__init__ (lines
\* 185-189) and __enter__ up to the first line of acquire_token (131).
EnterThrottle(t, P, TO) ==
    /\ pc[t] = "idle"
    /\ \E p \in P, to \in TO :
        /\ provider' = [provider EXCEPT ![t] = p]
        /\ timeout' = [timeout EXCEPT ![t] = to]
    /\ start_time' = [start_time EXCEPT ![t] = now]
    /\ via' = [via EXCEPT ![t] = TRUE]
    /\ acquired' = [acquired EXCEPT ![t] = FALSE]
    /\ pc' = [pc EXCEPT ![t] = "acq_lock"]
    /\ UNCHANGED <<now, registry, config, exc, marks, shared, current_time, wake, result, counts, hist>>

\* Line 135 entered without waiting for the lock.
AcqLockNoWait(t) ==
    /\ pc[t] = "acq_lock"
    /\ lock' = t
    /\ attempts' = [attempts EXCEPT ![t] = @ + 1]
    /\ pc' = [pc EXCEPT ![t] = "acq_refill"]
    /\ UNCHANGED <<now, registry, config, exc, marks, tokens, last_update, provider, timeout, start_time,
                   current_time, wake, via, acquired, result, sleeps,
                   consumed, hist>>

\* Line 135 as a queueing lock: a caller takes it only when no caller
\* waiting on the same provider began before it.
AcqLockFifo(t) ==
    /\ pc[t] = "acq_lock"
    /\ lock = NoThread
    /\ \A u \in Threads \ {t} :
          (pc[u] \in {"acq_lock", "acq_check", "acq_sleep"}
           /\ provider[u] = provider[t]) => start_time[u] >= start_time[t]
    /\ lock' = t
    /\ attempts' = [attempts EXCEPT ![t] = @ + 1]
    /\ pc' = [pc EXCEPT ![t] = "acq_refill"]
    /\ UNCHANGED <<now, registry, config, exc, marks, tokens, last_update,
                   provider, timeout, start_time, current_time, wake, via,
                   acquired, result, sleeps, consumed, hist>>

\* line 135: `with self._lock:` takes the lock.
AcqLock(t) ==
    /\ pc[t] = "acq_lock"
    /\ lock = NoThread
    /\ lock' = t
    /\ attempts' = Counted(attempts, t)
    /\ pc' = [pc EXCEPT ![t] = "acq_refill"]
    /\ UNCHANGED <<now, registry, config, exc, marks, tokens, last_update, provider, timeout, start_time,
                   current_time, wake, via, acquired, result, sleeps,
                   consumed, hist>>

\* Lines 136-137 without the call of _refill_tokens: the count tested is
\* the one the last critical section left.
AcqRefillSkipped(t) ==
    /\ pc[t] = "acq_refill"
    /\ current_time' = [current_time EXCEPT ![t] = now]
    /\ pc' = [pc EXCEPT ![t] = "acq_test"]
    /\ UNCHANGED <<now, registry, config, exc, marks, shared, provider, timeout,
                   start_time, wake, via, acquired, result, counts, hist>>

\* Lines 136-137 refilling up to start_time, the clock read at line 131
\* before the lock was taken.
AcqRefillOldClock(t) ==
    /\ pc[t] = "acq_refill"
    /\ current_time' = [current_time EXCEPT ![t] = start_time[t]]
    /\ tokens' = RefillTokens(provider[t], start_time[t])
    /\ last_update' = RefillLastUpdate(provider[t], start_time[t])
    /\ pc' = [pc EXCEPT ![t] = "acq_test"]
    /\ UNCHANGED <<now, registry, config, exc, marks, lock, provider, timeout,
                   start_time, wake, via, acquired, result, counts, hist>>

\* lines 136-137: read the clock and refill.
AcqRefill(t) ==
    /\ pc[t] = "acq_refill"
    /\ current_time' = [current_time EXCEPT ![t] = now]
    /\ tokens' = RefillTokens(provider[t], now)
    /\ last_update' = RefillLastUpdate(provider[t], now)
    /\ burst' = BurstAfterFull(RefillCreates(provider[t]))
    /\ fullAt' = FullAtAfterFull(RefillCreates(provider[t]), now)
    /\ baseTok' = BaseTokAfterFull(RefillCreates(provider[t]))
    /\ baseTime' = BaseTimeAfterFull(RefillCreates(provider[t]), now)
    /\ created' = CreatedAfterRefill(provider[t])
    /\ maker' = MakerAfterRefill(t, provider[t])
    /\ pc' = [pc EXCEPT ![t] = "acq_test"]
    /\ UNCHANGED <<now, registry, config, exc, zeroAt, since, late, lock, provider, timeout, start_time, wake, via,
                   acquired, result, counts, rec, grantLog, retLog>>

\* Lines 139-140 in the wrong order: the decrement comes first and is not
\* undone when no whole token was there.
AcqTestTakesFirst(t) ==
    /\ pc[t] = "acq_test"
    /\ tokens' = [tokens EXCEPT ![provider[t]] = @ - OneToken]
    /\ consumed' = [consumed EXCEPT ![t] = @ + 1]
    /\ pc' = [pc EXCEPT ![t] =
                IF HasToken(provider[t]) THEN "acq_granted" ELSE "acq_unlock"]
    /\ UNCHANGED <<now, registry, config, exc, marks, last_update, lock, provider, timeout, start_time,
                   current_time, wake, via, acquired, result, attempts,
                   sleeps, hist>>

\* Line 139 with the deadline of lines 149-151 looked at before the
\* attempt: a caller whose time is up is not granted.
AcqTestDeadlineFirst(t) ==
    /\ pc[t] = "acq_test"
    /\ IF tokens[provider[t]] = Absent
       THEN /\ pc' = [pc EXCEPT ![t] = "finished"]
            /\ result' = [result EXCEPT ![t] = [kind |-> "KeyError"]]
            /\ lock' = IF lock = t THEN NoThread ELSE lock
       ELSE /\ pc' = [pc EXCEPT ![t] =
                        IF HasToken(provider[t]) /\ ~TimedOut(t)
                        THEN "acq_dec" ELSE "acq_unlock"]
            /\ UNCHANGED <<result, lock>>
    /\ UNCHANGED <<now, registry, config, exc, marks, tokens, last_update,
                   provider, timeout, start_time, current_time, wake, via,
                   acquired, counts, hist>>

\* line 139: self._tokens[api_provider] >= 1.0 (KeyError when absent).
AcqTest(t) ==
    /\ pc[t] = "acq_test"
    /\ IF tokens[provider[t]] = Absent
       THEN /\ pc' = [pc EXCEPT ![t] = "finished"]
            /\ result' = [result EXCEPT ![t] = [kind |-> "KeyError"]]
            /\ lock' = IF lock = t THEN NoThread ELSE lock
       ELSE /\ pc' = [pc EXCEPT ![t] =
                        IF HasToken(provider[t]) THEN "acq_dec" ELSE "acq_unlock"]
            /\ UNCHANGED <<result, lock>>
    /\ UNCHANGED <<now, registry, config, exc, marks, tokens, last_update, provider, timeout, start_time,
                   current_time, wake, via, acquired, counts, hist>>

\* line 140: self._tokens[api_provider] -= 1.0
AcqDec(t) ==
    /\ pc[t] = "acq_dec"
    /\ tokens' = [tokens EXCEPT ![provider[t]] = @ - OneToken]
    /\ consumed' = [consumed EXCEPT ![t] = @ + 1]
    /\ burst' = BurstAfterGrant(provider[t])
    /\ baseTok' = IF "base" \in rec
                  THEN [baseTok EXCEPT ![provider[t]] = tokens'[provider[t]]]
                  ELSE baseTok
    /\ baseTime' = IF "base" \in rec
                   THEN [baseTime EXCEPT ![provider[t]] = last_update[provider[t]]]
                   ELSE baseTime
    /\ grantLog' = Logged(grantLog, provider[t], current_time[t])
    /\ zeroAt' = ZeroAtAfterGrant(provider[t], tokens'[provider[t]],
                                  current_time[t])
    /\ since' = SinceAfterGrant(provider[t])
    /\ pc' = [pc EXCEPT ![t] = "acq_granted"]
    /\ UNCHANGED <<now, registry, config, exc, created, maker, late, last_update, lock, provider, timeout, start_time,
                   current_time, wake, via, acquired, result, attempts,
                   sleeps, rec, fullAt, retLog>>

\* Lines 141-146 with `return True` not releasing the lock, as a lock
\* taken by acquire() with no release on the way out would behave.
AcqReturnTrueKeepsLock(t) ==
    /\ pc[t] = "acq_granted"
    /\ IF via[t]
       THEN /\ acquired' = [acquired EXCEPT ![t] = TRUE]
            /\ pc' = [pc EXCEPT ![t] = "guarded"]
       ELSE /\ pc' = [pc EXCEPT ![t] = "finished"]
            /\ UNCHANGED acquired
    /\ result' = [result EXCEPT ![t] = [kind |-> "True"]]
    /\ current_time' = [current_time EXCEPT ![t] = 0]
    /\ retLog' = Logged(retLog, provider[t], now)
    /\ UNCHANGED <<now, registry, config, exc, marks, tokens, last_update,
                   lock, provider, timeout, start_time, wake, via, counts,
                   rec, burst, fullAt, baseTok, baseTime, grantLog>>

\* lines 141-146: `return True` leaves the with block; through throttle,
\* __enter__ sets acquired (lines 197-198) and the guarded block starts.
AcqReturnTrue(t) ==
    /\ pc[t] = "acq_granted"
    /\ lock' = IF lock = t THEN NoThread ELSE lock
    /\ IF via[t]
       THEN /\ acquired' = [acquired EXCEPT ![t] = TRUE]
            /\ pc' = [pc EXCEPT ![t] = "guarded"]
       ELSE /\ pc' = [pc EXCEPT ![t] = "finished"]
            /\ UNCHANGED acquired
    /\ result' = [result EXCEPT ![t] = [kind |-> "True"]]
    /\ current_time' = [current_time EXCEPT ![t] = 0]
    /\ retLog' = Logged(retLog, provider[t], now)
    /\ UNCHANGED <<now, registry, config, exc, marks, tokens, last_update, provider, timeout, start_time,
                   wake, via, counts, rec, burst, fullAt, baseTok, baseTime,
                   grantLog>>

\* The deadline check and the sleep placed inside the with block: the
\* lock is kept.
AcqUnlockKeepsLock(t) ==
    /\ pc[t] = "acq_unlock"
    /\ pc' = [pc EXCEPT ![t] = "acq_check"]
    /\ current_time' = [current_time EXCEPT ![t] = 0]
    /\ UNCHANGED <<now, registry, config, exc, marks, shared, provider, timeout, start_time, wake, via,
                   acquired, result, counts, hist>>

\* the with block of line 135 ends without a grant.
AcqUnlock(t) ==
    /\ pc[t] = "acq_unlock"
    /\ lock' = IF lock = t THEN NoThread ELSE lock
    /\ pc' = [pc EXCEPT ![t] = "acq_check"]
    /\ current_time' = [current_time EXCEPT ![t] = 0]
    /\ UNCHANGED <<now, registry, config, exc, marks, tokens, last_update, provider, timeout, start_time,
                   wake, via, acquired, result, counts, hist>>

\* Lines 149-159 with the sleep before the deadline check: the caller
\* sleeps whatever its deadline.
AcqCheckSleepsFirst(t) ==
    /\ pc[t] = "acq_check"
    /\ pc' = [pc EXCEPT ![t] = "acq_sleep"]
    /\ wake' = [wake EXCEPT ![t] = now + SleepTicks]
    /\ sleeps' = [sleeps EXCEPT ![t] = @ + 1]
    /\ UNCHANGED <<now, registry, config, exc, marks, shared, provider, timeout, start_time, current_time,
                   via, acquired, result, attempts, consumed, hist>>

\* Lines 149-159 with __enter__ (line 192) ignoring what acquire_token
\* returned: the guarded block starts after a timeout too.
AcqCheckEntersAnyway(t) ==
    /\ pc[t] = "acq_check"
    /\ IF TimedOut(t)
       THEN /\ pc' = [pc EXCEPT ![t] = IF via[t] THEN "guarded" ELSE "finished"]
            /\ result' = [result EXCEPT ![t] =
                            IF via[t] THEN [kind |-> "True"]
                            ELSE [kind |-> "False"]]
            /\ acquired' = [acquired EXCEPT ![t] = via[t]]
            /\ UNCHANGED <<wake, sleeps>>
       ELSE /\ pc' = [pc EXCEPT ![t] = "acq_sleep"]
            /\ wake' = [wake EXCEPT ![t] = now + SleepTicks]
            /\ sleeps' = [sleeps EXCEPT ![t] = @ + 1]
            /\ UNCHANGED <<result, acquired>>
    /\ UNCHANGED <<now, registry, config, exc, marks, shared, provider, timeout, start_time, current_time,
                   via, attempts, consumed, hist>>

\* lines 149-159: the deadline check; `return False` (through throttle,
\* __enter__ raises TimeoutError, lines 192-196) or time.sleep(0.01).
AcqCheck(t) ==
    /\ pc[t] = "acq_check"
    /\ IF TimedOut(t)
       THEN /\ pc' = [pc EXCEPT ![t] = "finished"]
            /\ result' = [result EXCEPT ![t] =
                            IF via[t]
                            THEN [kind |-> "TimeoutError",
                                  provider |-> provider[t],
                                  timeout |-> timeout[t]]
                            ELSE [kind |-> "False"]]
            /\ UNCHANGED <<wake, sleeps>>
       ELSE /\ pc' = [pc EXCEPT ![t] = "acq_sleep"]
            /\ wake' = [wake EXCEPT ![t] = now + SleepTicks]
            /\ sleeps' = Counted(sleeps, t)
            /\ UNCHANGED result
    /\ UNCHANGED <<now, registry, config, exc, marks, shared, provider, timeout, start_time, current_time,
                   via, acquired, attempts, consumed, hist>>

\* time.sleep(0.01) returns; the loop of line 134 starts over.
AcqWake(t) ==
    /\ pc[t] = "acq_sleep"
    /\ now >= wake[t]
    /\ wake' = [wake EXCEPT ![t] = 0]
    /\ pc' = [pc EXCEPT ![t] = "acq_lock"]
    /\ UNCHANGED <<now, registry, config, exc, marks, shared, provider, timeout, start_time, current_time,
                   via, acquired, result, counts, hist>>

\* __exit__ returning self.acquired instead of False.
ExitReturnsAcquired(t) == acquired[t]

\* ThrottleContext.__exit__ line 203: `return False`, the value that tells
\* the with statement whether to swallow the block's exception.
ExitReturns(t) == FALSE

\* ThrottleContext.__exit__, lines 200-203: the guarded block is left,
\* normally or by an exception it raised.
ExitThrottle(t) ==
    /\ pc[t] = "guarded"
    /\ \E raised \in BOOLEAN :
        exc' = [exc EXCEPT ![t] =
                  IF ~raised THEN "none"
                  ELSE IF ExitReturns(t) THEN "suppressed" ELSE "propagated"]
    /\ pc' = [pc EXCEPT ![t] = "finished"]
    /\ UNCHANGED <<now, registry, config, marks, shared, provider, timeout, start_time, current_time,
                   wake, via, acquired, result, counts, hist>>

\* get_available_tokens(p) is called: line 217 waits for the lock.
CallAvail(t, P) ==
    /\ pc[t] = "idle"
    /\ \E p \in P : provider' = [provider EXCEPT ![t] = p]
    /\ pc' = [pc EXCEPT ![t] = "avail_lock"]
    /\ UNCHANGED <<now, registry, config, exc, marks, shared, timeout, start_time, current_time, wake, via,
                   acquired, result, counts, hist>>

\* line 217: `with self._lock:` takes the lock.
AvailLock(t) ==
    /\ pc[t] = "avail_lock"
    /\ lock = NoThread
    /\ lock' = t
    /\ pc' = [pc EXCEPT ![t] = "avail_body"]
    /\ UNCHANGED <<now, registry, config, exc, marks, tokens, last_update, provider, timeout, start_time,
                   current_time, wake, via, acquired, result, counts, hist>>

\* Lines 218-219 without the call of _refill_tokens.
AvailBodyNoRefill(t) ==
    /\ pc[t] = "avail_body"
    /\ current_time' = [current_time EXCEPT ![t] = now]
    /\ pc' = [pc EXCEPT ![t] = "avail_ret"]
    /\ UNCHANGED <<now, registry, config, exc, marks, shared, provider, timeout,
                   start_time, wake, via, acquired, result, counts, hist>>

\* lines 218-219: read the clock and refill.
AvailBody(t) ==
    /\ pc[t] = "avail_body"
    /\ current_time' = [current_time EXCEPT ![t] = now]
    /\ tokens' = RefillTokens(provider[t], now)
    /\ last_update' = RefillLastUpdate(provider[t], now)
    /\ burst' = BurstAfterFull(RefillCreates(provider[t]))
    /\ fullAt' = FullAtAfterFull(RefillCreates(provider[t]), now)
    /\ baseTok' = BaseTokAfterFull(RefillCreates(provider[t]))
    /\ baseTime' = BaseTimeAfterFull(RefillCreates(provider[t]), now)
    /\ created' = CreatedAfterRefill(provider[t])
    /\ maker' = MakerAfterRefill(t, provider[t])
    /\ pc' = [pc EXCEPT ![t] = "avail_ret"]
    /\ UNCHANGED <<now, registry, config, exc, zeroAt, since, late, lock, provider, timeout, start_time, wake, via,
                   acquired, result, counts, rec, grantLog, retLog>>

\* line 220: return self._tokens.get(api_provider, 0.0), leaving the with.
AvailReturn(t) ==
    /\ pc[t] = "avail_ret"
    /\ result' = [result EXCEPT ![t] =
                    [kind |-> "tokens",
                     value |-> IF tokens[provider[t]] = Absent
                               THEN 0 ELSE tokens[provider[t]]]]
    /\ lock' = IF lock = t THEN NoThread ELSE lock
    /\ current_time' = [current_time EXCEPT ![t] = 0]
    /\ pc' = [pc EXCEPT ![t] = "finished"]
    /\ UNCHANGED <<now, registry, config, exc, marks, tokens, last_update, provider, timeout, start_time,
                   wake, via, acquired, counts, hist>>

\* reset(arg) is called: line 232 waits for the lock.
CallReset(t, A) ==
    /\ pc[t] = "idle"
    /\ \E a \in A : provider' = [provider EXCEPT ![t] = a]
    /\ pc' = [pc EXCEPT ![t] = "reset_lock"]
    /\ UNCHANGED <<now, registry, config, exc, marks, shared, timeout, start_time, current_time, wake, via,
                   acquired, result, counts, hist>>

\* line 232: `with self._lock:` takes the lock.
ResetLock(t) ==
    /\ pc[t] = "reset_lock"
    /\ lock = NoThread
    /\ lock' = t
    /\ pc' = [pc EXCEPT ![t] = "reset_body"]
    /\ UNCHANGED <<now, registry, config, exc, marks, tokens, last_update, provider, timeout, start_time,
                   current_time, wake, via, acquired, result, counts, hist>>

\* Lines 233-242 assigning 0.0 instead of self._capacity: reset empties.
ResetBodyEmpties(t) ==
    /\ pc[t] = "reset_body"
    /\ LET targets == ResetTargets(provider[t])
       IN /\ tokens' = [n \in Names |-> IF n \in targets THEN 0 ELSE tokens[n]]
          /\ last_update' = [n \in Names |->
                               IF n \in targets THEN now ELSE last_update[n]]
    /\ pc' = [pc EXCEPT ![t] = "reset_unlock"]
    /\ UNCHANGED <<now, registry, config, exc, marks, lock, provider, timeout,
                   start_time, current_time, wake, via, acquired, result,
                   counts, hist>>

\* lines 233-242: the bucket, or every bucket of the rate table, is set full.
ResetBody(t) ==
    /\ pc[t] = "reset_body"
    /\ LET targets == ResetTargets(provider[t])
       IN /\ tokens' = [n \in Names |->
                          IF n \in targets THEN CapUnits ELSE tokens[n]]
          /\ last_update' = [n \in Names |->
                               IF n \in targets THEN now ELSE last_update[n]]
          /\ burst' = BurstAfterFull(targets)
          /\ fullAt' = FullAtAfterFull(targets, now)
          /\ baseTok' = BaseTokAfterFull(targets)
          /\ baseTime' = BaseTimeAfterFull(targets, now)
          /\ zeroAt' = [n \in Names |->
                          IF n \in targets THEN Absent ELSE zeroAt[n]]
          /\ since' = [n \in Names |-> IF n \in targets THEN 0 ELSE since[n]]
    /\ pc' = [pc EXCEPT ![t] = "reset_unlock"]
    /\ UNCHANGED <<now, registry, config, exc, created, maker, late, lock, provider, timeout, start_time, current_time,
                   wake, via, acquired, result, counts, rec, grantLog, retLog>>

\* the with block of line 232 ends; reset returns None.
ResetUnlock(t) ==
    /\ pc[t] = "reset_unlock"
    /\ lock' = IF lock = t THEN NoThread ELSE lock
    /\ result' = [result EXCEPT ![t] = [kind |-> "None"]]
    /\ pc' = [pc EXCEPT ![t] = "finished"]
    /\ UNCHANGED <<now, registry, config, exc, marks, tokens, last_update, provider, timeout, start_time,
                   current_time, wake, via, acquired, counts, hist>>

\* get_throttler() is called: line 256.
CallGetThrottler(t) ==
    /\ pc[t] = "idle"
    /\ pc' = [pc EXCEPT ![t] = "gt_check"]
    /\ UNCHANGED <<now, registry, config, shared, provider, timeout,
                   start_time, current_time, wake, via, acquired, result, exc,
                   counts, hist, marks>>

\* line 257: if _default_throttler is None
GtCheck(t) ==
    /\ pc[t] = "gt_check"
    /\ pc' = [pc EXCEPT ![t] =
                IF default_throttler = NoInstance THEN "gt_new" ELSE "gt_return"]
    /\ UNCHANGED <<now, registry, config, shared, provider, timeout,
                   start_time, current_time, wake, via, acquired, result, exc,
                   counts, hist, marks>>

\* line 258, right-hand side: APIThrottler() constructs an instance.
GtNew(t) ==
    /\ pc[t] = "gt_new"
    /\ instances' = instances + 1
    /\ fresh' = [fresh EXCEPT ![t] = instances + 1]
    /\ pc' = [pc EXCEPT ![t] = "gt_assign"]
    /\ UNCHANGED <<now, default_throttler, config, shared, provider, timeout,
                   start_time, current_time, wake, via, acquired, result, exc,
                   counts, hist, marks>>

\* line 258, the assignment to the global.
GtAssign(t) ==
    /\ pc[t] = "gt_assign"
    /\ default_throttler' = fresh[t]
    /\ pc' = [pc EXCEPT ![t] = "gt_return"]
    /\ UNCHANGED <<now, instances, fresh, config, shared, provider, timeout,
                   start_time, current_time, wake, via, acquired, result, exc,
                   counts, hist, marks>>

\* line 259: return _default_throttler
GtReturn(t) ==
    /\ pc[t] = "gt_return"
    /\ result' = [result EXCEPT ![t] =
                    [kind |-> "throttler", value |-> default_throttler]]
    /\ fresh' = [fresh EXCEPT ![t] = NoInstance]
    /\ pc' = [pc EXCEPT ![t] = "finished"]
    /\ UNCHANGED <<now, default_throttler, instances, config, shared,
                   provider, timeout, start_time, current_time, wake, via,
                   acquired, exc, counts, hist, marks>>

\* The caller has used the call's outcome and is free for its next call.
Finish(t) ==
    /\ pc[t] = "finished"
    /\ pc' = [pc EXCEPT ![t] = "idle"]
    /\ provider' = [provider EXCEPT ![t] = None]
    /\ timeout' = [timeout EXCEPT ![t] = NoTimeout]
    /\ start_time' = [start_time EXCEPT ![t] = 0]
    /\ current_time' = [current_time EXCEPT ![t] = 0]
    /\ via' = [via EXCEPT ![t] = FALSE]
    /\ acquired' = [acquired EXCEPT ![t] = FALSE]
    /\ result' = [result EXCEPT ![t] = NoResult]
    /\ exc' = [exc EXCEPT ![t] = "none"]
    /\ attempts' = [attempts EXCEPT ![t] = 0]
    /\ sleeps' = [sleeps EXCEPT ![t] = 0]
    /\ consumed' = [consumed EXCEPT ![t] = 0]
    /\ maker' = [maker EXCEPT ![t] = FALSE]
    /\ late' = [late EXCEPT ![t] = FALSE]
    /\ UNCHANGED <<now, registry, config, created, zeroAt, since, shared, wake, hist>>

\* --------------------------------------------------------- specifications

\* Every operation, by two callers, on one provider.
Next ==
    \/ Tick
    \/ \E t \in Threads :
        \/ CallAcquire(t, OneProvider, Timeouts)
        \/ EnterThrottle(t, OneProvider, Timeouts)
        \/ AcqLock(t)
        \/ AcqRefill(t)
        \/ AcqTest(t)
        \/ AcqDec(t)
        \/ AcqReturnTrue(t)
        \/ AcqUnlock(t)
        \/ AcqCheck(t)
        \/ AcqWake(t)
        \/ ExitThrottle(t)
        \/ CallAvail(t, OneProvider)
        \/ AvailLock(t)
        \/ AvailBody(t)
        \/ AvailReturn(t)
        \/ CallReset(t, ResetArgs)
        \/ ResetLock(t)
        \/ ResetBody(t)
        \/ ResetUnlock(t)
        \/ Finish(t)

Spec == Init /\ [][Next]_vars

\* The same, recording the grants since each bucket was last full.
SpecBurst == InitBurst /\ [][Next]_vars

\* The same, recording each bucket as its last creation, grant or reset
\* left it.
SpecBase == InitBase /\ [][Next]_vars

\* Executions in which reset is never called, with the grants logged.
NextNoReset ==
    \/ Tick
    \/ \E t \in Threads :
        \/ CallAcquire(t, OneProvider, Timeouts)
        \/ EnterThrottle(t, OneProvider, Timeouts)
        \/ AcqLock(t)
        \/ AcqRefill(t)
        \/ AcqTest(t)
        \/ AcqDec(t)
        \/ AcqReturnTrue(t)
        \/ AcqUnlock(t)
        \/ AcqCheck(t)
        \/ AcqWake(t)
        \/ ExitThrottle(t)
        \/ CallAvail(t, OneProvider)
        \/ AvailLock(t)
        \/ AvailBody(t)
        \/ AvailReturn(t)
        \/ Finish(t)

SpecNoReset == InitLog /\ [][NextNoReset]_vars

\* acquire_token, get_available_tokens and reset by two callers of a
\* provider name that is not in the rate table.
NextNames ==
    \/ Tick
    \/ \E t \in Threads :
        \/ CallAcquire(t, UnknownProvider, Timeouts)
        \/ AcqLock(t)
        \/ AcqRefill(t)
        \/ AcqTest(t)
        \/ AcqDec(t)
        \/ AcqReturnTrue(t)
        \/ AcqUnlock(t)
        \/ AcqCheck(t)
        \/ AcqWake(t)
        \/ CallAvail(t, UnknownProvider)
        \/ AvailLock(t)
        \/ AvailBody(t)
        \/ AvailReturn(t)
        \/ CallReset(t, ResetNames)
        \/ ResetLock(t)
        \/ ResetBody(t)
        \/ ResetUnlock(t)
        \/ Finish(t)

SpecNames == InitCreate /\ [][NextNames]_vars

\* Every operation on a throttle constructed with any of the arguments.
SpecConfig == InitAnyConfig /\ [][Next]_vars

\* acquire_token and get_available_tokens by two callers on two providers.
NextPair ==
    \/ Tick
    \/ \E t \in Threads :
        \/ CallAcquire(t, Providers, Timeouts)
        \/ AcqLock(t)
        \/ AcqRefill(t)
        \/ AcqTest(t)
        \/ AcqDec(t)
        \/ AcqReturnTrue(t)
        \/ AcqUnlock(t)
        \/ AcqCheck(t)
        \/ AcqWake(t)
        \/ CallAvail(t, Providers)
        \/ AvailLock(t)
        \/ AvailBody(t)
        \/ AvailReturn(t)
        \/ Finish(t)

SpecPair == Init /\ [][NextPair]_vars

\* get_throttler called by two threads, again and again.
NextRegistry ==
    \E t \in Threads :
        \/ CallGetThrottler(t)
        \/ GtCheck(t)
        \/ GtNew(t)
        \/ GtAssign(t)
        \/ GtReturn(t)
        \/ Finish(t)

SpecRegistry == Init /\ [][NextRegistry]_vars

\* acquire_token, get_available_tokens and reset by two callers on one
\* provider, with time passing without end.
NextLive ==
    \/ TickOn
    \/ \E t \in Threads :
        \/ CallAcquire(t, OneProvider, Timeouts)
        \/ AcqLock(t)
        \/ AcqRefill(t)
        \/ AcqTest(t)
        \/ AcqDec(t)
        \/ AcqReturnTrue(t)
        \/ AcqUnlock(t)
        \/ AcqCheck(t)
        \/ AcqWake(t)
        \/ CallAvail(t, OneProvider)
        \/ AvailLock(t)
        \/ AvailBody(t)
        \/ AvailReturn(t)
        \/ CallReset(t, OneProvider)
        \/ ResetLock(t)
        \/ ResetBody(t)
        \/ ResetUnlock(t)
        \/ Finish(t)

\* The steps of a call of t that is under way, other than taking the lock.
Proceed(t) ==
    \/ AcqRefill(t)
    \/ AcqTest(t)
    \/ AcqDec(t)
    \/ AcqReturnTrue(t)
    \/ AcqUnlock(t)
    \/ AcqCheck(t)
    \/ AcqWake(t)
    \/ AvailBody(t)
    \/ AvailReturn(t)
    \/ ResetBody(t)
    \/ ResetUnlock(t)

\* t takes the lock: the first line of a `with self._lock:` block.
TakeLock(t) == AcqLock(t) \/ AvailLock(t) \/ ResetLock(t)

\* Time keeps advancing, a call under way keeps running, and the lock is
\* fair: a caller that finds it free again and again gets it. Nothing
\* makes a caller begin a call.
Fairness ==
    /\ WF_vars(TickOn)
    /\ \A t \in Threads : WF_vars(Proceed(t)) /\ SF_vars(TakeLock(t))

SpecLive == InitLive /\ [][NextLive]_vars /\ Fairness

\* Every operation, by two callers, on one provider, counting the grants
\* after the bucket was emptied.
SpecWait == InitWait /\ [][Next]_vars

\* acquire_token by two callers on one provider, the lock taken in no time.
NextTimed ==
    \/ TickTimed
    \/ \E t \in Threads :
        \/ CallAcquire(t, OneProvider, Timeouts)
        \/ AcqLock(t)
        \/ AcqRefill(t)
        \/ AcqTest(t)
        \/ AcqDec(t)
        \/ AcqReturnTrue(t)
        \/ AcqUnlock(t)
        \/ AcqCheck(t)
        \/ AcqWake(t)
        \/ Finish(t)

SpecTimed == Init /\ [][NextTimed]_vars

\* ---------------------------------------------------------------- claims

\* The buckets that exist.
Buckets == {n \in Names : tokens[n] # Absent}

\* The outcome kinds of a call that ended without a grant.
Failed(t) == result[t].kind \in {"False", "TimeoutError"}

\* C1. Capacity bound: in every reachable state, whatever the interleaving
\* of acquire, availableTokens and reset, every provider that has a bucket
\* holds at least 0 and at most capacity tokens.
C1_CapacityBound ==
    \A n \in Buckets : 0 <= tokens[n] /\ tokens[n] <= CapUnits

\* C1 witness: one caller was granted the last token and the other, inside
\* its critical section, has found the bucket empty.
C1_Witness ==
    /\ tokens["yfinance"] = 0
    /\ pc[1] = "acq_unlock"
    /\ result[2].kind = "True"

\* The grants a log holds for the instants s .. e.
RECURSIVE SumLog(_, _, _)
SumLog(f, s, e) == IF s > e THEN 0 ELSE f[s] + SumLog(f, s + 1, e)

\* At most capacity + rate * (e - s) grants of p are logged in s .. e.
WithinRate(log, p, s, e) ==
    SumLog(log[p], s, e) * TokenUnit <= CapUnits + GetRateLimit(p) * (e - s)

\* C2 as stated. Sustained rate bound: with reset never called, for every
\* provider and every window of T ticks, the acquire calls that return true
\* within the window number at most capacity + rate * T.
C2_RateBoundAtReturn ==
    \A p \in Names : \A s \in 0 .. MaxTime : \A e \in s .. MaxTime :
        WithinRate(retLog, p, s, e)

\* C2 as amended. With reset never called, for every provider and every
\* window of T ticks, the grants whose critical section read its clock
\* (current_time, line 136) within the window number at most
\* capacity + rate * T.
C2_RateBoundAtRefill ==
    \A p \in Names : \A s \in 0 .. MaxTime : \A e \in s .. MaxTime :
        WithinRate(grantLog, p, s, e)

\* C2 witness: over a window longer than zero the bound is met exactly, by
\* the burst and the tokens accrued since.
C2_Witness ==
    \E s \in 0 .. MaxTime : \E e \in (s + 1) .. MaxTime :
        /\ SumLog(grantLog["yfinance"], s, e) > Capacity
        /\ SumLog(grantLog["yfinance"], s, e) * TokenUnit
             = CapUnits + GetRateLimit("yfinance") * (e - s)

\* The calls of acquire_token that were granted.
Granted(t) == pc[t] = "acq_granted" \/ result[t].kind = "True"

\* C3. Immediate burst: while no time has passed since a bucket was
\* created or reset, the acquire calls for it are granted at most capacity
\* times in total; a call is denied in that instant only after exactly
\* capacity grants; and a call begun since then is granted on its first
\* attempt, without a sleep.
C3_ImmediateBurst ==
    \A p \in Buckets : fullAt[p] = now =>
        /\ burst[p] <= Capacity
        /\ \A t \in Threads : provider[t] = p =>
            /\ pc[t] = "acq_unlock" => burst[p] = Capacity
            /\ (Granted(t) /\ start_time[t] >= fullAt[p]) =>
                   (attempts[t] = 1 /\ sleeps[t] = 0)

\* C3 witness: a reset has returned at a later tick, capacity grants have
\* followed in the same instant, and the next call has just been denied.
C3_Witness ==
    /\ now > 0
    /\ fullAt["yfinance"] = now
    /\ burst["yfinance"] = Capacity
    /\ result[2].kind = "None"
    /\ provider[1] = "yfinance"
    /\ pc[1] = "acq_unlock"

\* The tokens time-based refill alone makes of the bucket the last
\* creation, grant or reset left.
RefillOnly(p) ==
    Min(CapUnits, baseTok[p] + GetRateLimit(p) * (last_update[p] - baseTime[p]))

\* C4. No consumption on timeout: an acquire call that returns false (or
\* raises the timeout error) has decremented nothing, a call that has
\* decremented can only return true, and the tokens of every bucket are
\* at all times what time-based refill alone makes of the count its last
\* creation, grant or reset left, however many calls have failed since.
C4_NoConsumptionOnTimeout ==
    /\ \A t \in Threads :
        /\ Failed(t) => consumed[t] = 0
        /\ consumed[t] > 0 => (consumed[t] = 1 /\ Granted(t))
    /\ \A p \in Buckets : tokens[p] = RefillOnly(p)

\* C4 witness: against a bucket left at 0 tokens a call has timed out, and
\* availableTokens then returned exactly the tokens accrued since.
C4_Witness ==
    /\ baseTok["yfinance"] = 0
    /\ result[2].kind = "False"
    /\ sleeps[2] > 0
    /\ result[1].kind = "tokens"
    /\ result[1].value > 0
    /\ result[1].value = RefillOnly("yfinance")
    /\ tokens["yfinance"] = result[1].value

\* C5 as stated. Timeout deadline: no acquire call with a timeout is
\* granted a token when its elapsed time is already at or past the timeout.
C5_NoGrantPastDeadline ==
    \A t \in Threads :
        (pc[t] = "acq_granted" /\ timeout[t] # NoTimeout) =>
            current_time[t] - start_time[t] < timeout[t]

\* C5 as amended. The deadline is checked only after a failed attempt: a
\* call with a timeout that has returned false has consumed nothing and its
\* elapsed time is at or past the timeout, and it never starts a sleep when
\* its elapsed time is at or past the timeout. (An attempt made past the
\* deadline can still be granted.)
C5_DeadlineAtCheck ==
    \A t \in Threads : timeout[t] # NoTimeout =>
        /\ Failed(t) => (consumed[t] = 0 /\ now - start_time[t] >= timeout[t])
        /\ pc[t] = "acq_sleep" =>
               (wake[t] - SleepTicks) - start_time[t] < timeout[t]

\* C5 witness: a call with a positive timeout has polled, slept and then
\* returned false at its deadline.
C5_Witness ==
    \E t \in Threads :
        /\ timeout[t] > 0
        /\ result[t].kind = "False"
        /\ sleeps[t] > 0

\* C6. Zero timeout on an exhausted bucket: acquire(p, timeout=0) that
\* finds fewer than 1 token returns false after exactly one attempt, never
\* sleeping and decrementing nothing.
C6_ZeroTimeout ==
    \A t \in Threads : timeout[t] = 0 =>
        /\ pc[t] # "acq_sleep"
        /\ sleeps[t] = 0
        /\ attempts[t] <= 1
        /\ Failed(t) => (attempts[t] = 1 /\ consumed[t] = 0)

\* C6 witness: a call with timeout 0 has returned false on a bucket holding
\* less than one token.
C6_Witness ==
    \E t \in Threads :
        /\ timeout[t] = 0
        /\ result[t].kind = "False"
        /\ tokens[provider[t]] < OneToken

\* C7. Scoped acquisition: the guarded block runs only after exactly one
\* token was consumed for this entry; when acquire returns false the entry
\* raises a timeout error naming the provider and the timeout, and the
\* guarded block has not run.
C7_ScopedAcquisition ==
    \A t \in Threads :
        /\ pc[t] = "guarded" =>
               (via[t] /\ acquired[t] /\ consumed[t] = 1
                /\ result[t].kind = "True")
        /\ acquired[t] => consumed[t] = 1
        /\ via[t] => result[t].kind # "False"
        /\ result[t].kind = "TimeoutError" =>
               /\ via[t]
               /\ pc[t] = "finished"
               /\ ~acquired[t]
               /\ consumed[t] = 0
               /\ result[t].provider = provider[t]
               /\ result[t].timeout = timeout[t]
               /\ timeout[t] # NoTimeout

\* C7 witness: one entry is running its guarded block while another has
\* raised the timeout error.
C7_Witness ==
    /\ pc[1] = "guarded"
    /\ result[2].kind = "TimeoutError"
    /\ result[2].timeout = 1

\* C8. Timeout is the only failure: an acquire call with no timeout never
\* returns false and never raises; at its deadline check it always goes on
\* to sleep and poll again.
C8_OnlyTimeoutFails ==
    \A t \in Threads :
        /\ result[t].kind # "KeyError"
        /\ timeout[t] = NoTimeout =>
            /\ ~Failed(t)
            /\ pc[t] = "acq_check" => ~TimedOut(t)

\* C8 witness: a call with no timeout has polled until the end of the
\* modelled time without a grant and is sleeping again.
C8_Witness ==
    \E t \in Threads :
        /\ timeout[t] = NoTimeout
        /\ pc[t] = "acq_sleep"
        /\ attempts[t] > MaxTime
        /\ now = MaxTime

\* C9. Lock scope: whoever holds the lock is inside a critical section; no
\* caller sleeping between polls, at its deadline check or running a
\* guarded block holds it.
C9_LockScope ==
    /\ lock # NoThread => pc[lock] \in CriticalPcs
    /\ \A t \in Threads :
        pc[t] \in {"acq_check", "acq_sleep", "guarded"} => lock # t

\* C9 witness: one caller sleeps between polls while the other, holding
\* the lock, is in its critical section; and the guarded block is reached.
C9_Witness ==
    /\ pc[1] = "acq_sleep"
    /\ lock = 2
    /\ pc[2] = "acq_refill"
    /\ via[2]

\* C10. Mutual exclusion of bucket state: a caller is inside a critical
\* section (where every read and write of tokens and _last_update happens)
\* only while it holds the lock, so at most one is; and every step that
\* changes a token count or a _last_update is a step of the lock holder
\* inside its critical section.
C10_MutualExclusion ==
    [][/\ \A t \in Threads : pc'[t] \in CriticalPcs => lock' = t
       /\ (tokens' # tokens \/ last_update' # last_update) =>
            /\ lock # NoThread
            /\ pc[lock] \in CriticalPcs
            /\ pc'[lock] # pc[lock]
            /\ \A u \in Threads \ {lock} : pc'[u] = pc[u]]_vars

\* C10 witness: one caller is about to decrement inside its critical
\* section while the other waits for the lock to reset.
C10_Witness ==
    /\ lock = 1
    /\ pc[1] = "acq_dec"
    /\ pc[2] = "reset_lock"

\* The positions of a running acquire_token.
AcquirePcs == AcquireCS \cup {"acq_lock", "acq_check", "acq_sleep"}

\* C11. Unknown provider fallback: for a provider name absent from the rate
\* table, the refill of an acquire or availableTokens that finds no bucket
\* creates one with tokens = capacity, the acquire that did so is granted
\* on that first attempt without sleeping or raising, and every refill of
\* the existing bucket adds the elapsed time times the rate configured
\* under "default", up to capacity.
C11_UnknownProviderFallback ==
    [][\A t \in Threads : provider[t] \in UnknownNames =>
        LET p == provider[t] IN
        /\ result[t].kind # "KeyError"
        /\ ((pc[t] = "acq_refill" /\ pc'[t] = "acq_test")
             \/ (pc[t] = "avail_body" /\ pc'[t] = "avail_ret")) =>
               IF tokens[p] = Absent
               THEN tokens'[p] = CapUnits /\ last_update'[p] = now /\ maker'[t]
               ELSE /\ tokens'[p] =
                        Min(CapUnits, tokens[p]
                              + (now - last_update[p]) * rate_limits["default"])
                    /\ ~maker'[t]
        /\ (maker[t] /\ pc[t] = "acq_test") => pc'[t] \in {"acq_test", "acq_dec"}
        /\ (maker[t] /\ pc[t] \in AcquirePcs) =>
               (attempts[t] = 1 /\ sleeps[t] = 0 /\ pc[t] \in AcquireCS)
    ]_vars

\* C11 witness: the first acquire of the unknown name was granted by the
\* critical section that created its bucket; the bucket was then emptied
\* and, a tick later, availableTokens returned what the default rate gives
\* in one tick, less than the capacity.
C11_Witness ==
    /\ provider[2] = "x"
    /\ maker[2]
    /\ result[2].kind = "True"
    /\ provider[1] = "x"
    /\ result[1].kind = "tokens"
    /\ result[1].value = rate_limits["default"]
    /\ result[1].value < CapUnits
    /\ created["x"] = 1

C13_AvailableTokens ==
    [][\A t \in Threads :
        LET p == provider[t] IN
        /\ (pc[t] = "avail_body" /\ pc'[t] = "avail_ret") =>
               /\ last_update'[p] = now
               /\ IF tokens[p] = Absent
                  THEN tokens'[p] = CapUnits
                  ELSE /\ tokens'[p] =
                           Min(CapUnits, tokens[p]
                                 + (now - last_update[p]) * GetRateLimit(p))
                       /\ tokens'[p] >= tokens[p]
               /\ \A n \in Names \ {p} :
                      tokens'[n] = tokens[n] /\ last_update'[n] = last_update[n]
        /\ (pc[t] = "avail_ret" /\ pc'[t] = "finished") =>
               /\ result'[t] = [kind |-> "tokens", value |-> tokens[p]]
               /\ tokens' = tokens
               /\ last_update' = last_update
        /\ (pc[t] = "acq_refill" /\ pc'[t] = "acq_test"
             /\ last_update[p] = now) =>
               tokens'[p] = tokens[p]
    ]_vars

\* C13 witness: availableTokens returned a count accrued since the bucket
\* was emptied, and an acquire begun at the same instant has refilled and
\* sees the same count.
C13_Witness ==
    /\ now > 0
    /\ result[1].kind = "tokens"
    /\ result[1].value > 0
    /\ result[1].value < CapUnits
    /\ pc[2] = "acq_test"
    /\ provider[2] = provider[1]
    /\ start_time[2] = now
    /\ current_time[2] = now
    /\ tokens[provider[2]] = result[1].value

\* The step of t is the body of reset.
ResetStep(t) == pc[t] = "reset_body" /\ pc'[t] = "reset_unlock"

\* The step sets the bucket of p to tokens = capacity, _last_update = now
\* and leaves every other bucket as it was.
ResetsOnly(p) ==
    /\ tokens'[p] = CapUnits
    /\ last_update'[p] = now
    /\ \A n \in Names \ {p} :
           tokens'[n] = tokens[n] /\ last_update'[n] = last_update[n]

\* C14 as stated. reset(p), for any provider name p (any string), sets the
\* bucket of p to tokens = capacity and lastRefillTime = now, creating it
\* if absent, and leaves every other provider's bucket unchanged.
C14_ResetNamed ==
    [][\A t \in Threads :
        (ResetStep(t) /\ provider[t] # None) => ResetsOnly(provider[t])
    ]_vars

\* C15 as stated. reset() with no provider name sets every bucket that
\* exists at that moment back to tokens = capacity and lastRefillTime =
\* now, whether or not its name is in the rate table.
C15_ResetAll ==
    [][\A t \in Threads :
        (ResetStep(t) /\ provider[t] = None) =>
            \A n \in Buckets : tokens'[n] = CapUnits /\ last_update'[n] = now
    ]_vars

C17_MisconfigurationRejected ==
    Buckets # {} =>
        /\ capacity > 0
        /\ \A n \in DOMAIN rate_limits : rate_limits[n] > 0

\* C18. Fresh refill before consume: a token count goes down only in the
\* decrement of the lock holder, by exactly one token, from a count of at
\* least one token, and with _last_update equal to the clock its critical
\* section read, which is no older than the call; whoever is about to
\* decrement holds the lock, so no two callers consume the same token.
C18_FreshRefillBeforeConsume ==
    [][/\ \A n \in Names : (tokens[n] # Absent /\ tokens'[n] < tokens[n]) =>
            /\ lock # NoThread
            /\ pc[lock] = "acq_dec"
            /\ provider[lock] = n
            /\ tokens[n] >= OneToken
            /\ tokens'[n] = tokens[n] - OneToken
            /\ last_update[n] = current_time[lock]
            /\ consumed'[lock] = consumed[lock] + 1
            /\ \A u \in Threads \ {lock} : consumed'[u] = consumed[u]
       /\ \A t \in Threads : pc[t] = "acq_dec" =>
            /\ lock = t
            /\ tokens[provider[t]] >= OneToken
            /\ last_update[provider[t]] = current_time[t]
            /\ start_time[t] <= current_time[t]
            /\ current_time[t] <= now
    ]_vars

\* C18 witness: two acquires contend for the one token a refill has just
\* accrued; one is about to decrement and the other waits for the lock.
C18_Witness ==
    /\ now > 0
    /\ tokens["yfinance"] = OneToken
    /\ last_update["yfinance"] = now
    /\ lock = 1
    /\ pc[1] = "acq_dec"
    /\ sleeps[1] > 0
    /\ pc[2] = "acq_lock"
    /\ provider[2] = "yfinance"

\* The positions at which a caller reads the clock and writes
\* _last_update.
WriterPcs == {"acq_refill", "avail_body", "reset_body"}

\* C19. For every provider _last_update never decreases, whatever the
\* interleaving of acquire, availableTokens and reset by concurrent callers
\* under a non-decreasing clock: every write is by the lock holder and
\* stores the clock it reads while holding the lock.
C19_LastRefillTimeMonotonic ==
    [][\A n \in Names :
        /\ last_update[n] # Absent => last_update'[n] >= last_update[n]
        /\ last_update'[n] # last_update[n] =>
              /\ lock # NoThread
              /\ pc[lock] \in WriterPcs
              /\ last_update'[n] = now
        /\ last_update[n] # Absent => last_update[n] <= now
    ]_vars

\* C19 witness: a reset has written a later time while an acquire that
\* began earlier, and had already refilled once, waits for the lock.
C19_Witness ==
    /\ pc[1] = "reset_unlock"
    /\ last_update["yfinance"] = now
    /\ pc[2] = "acq_lock"
    /\ provider[2] = "yfinance"
    /\ attempts[2] > 0
    /\ start_time[2] < now

\* C20. Lazy single creation: _refill_tokens initialises a provider's
\* bucket to tokens = capacity at most once, in the critical section of
\* the first acquire or availableTokens that finds the name without a
\* bucket, however many callers reference the new name at once; a later
\* reference refills the bucket it finds by the elapsed time only; and a
\* bucket once created is never removed.
C20_LazySingleCreation ==
    [][\A n \in Names :
        /\ created[n] <= 1
        /\ tokens[n] = Absent <=> last_update[n] = Absent
        /\ tokens[n] # Absent =>
              (tokens'[n] # Absent /\ last_update'[n] # Absent)
        /\ created'[n] > created[n] =>
              /\ tokens[n] = Absent
              /\ tokens'[n] = CapUnits
              /\ lock # NoThread
              /\ provider[lock] = n
              /\ maker'[lock]
        /\ \A t \in Threads :
              (provider[t] = n /\ pc[t] \in {"acq_refill", "avail_body"}
               /\ pc'[t] # pc[t] /\ tokens[n] # Absent) =>
                  /\ created'[n] = created[n]
                  /\ tokens'[n] =
                        Min(CapUnits, tokens[n]
                              + (now - last_update[n]) * GetRateLimit(n))
    ]_vars

\* C20 witness: two acquires began for a name with no bucket; the critical
\* section of one created it and took a token, and the other, on its first
\* attempt at the same instant, finds the bucket one token short.
C20_Witness ==
    /\ now = 0
    /\ created["x"] = 1
    /\ provider[1] = "x"
    /\ maker[1]
    /\ result[1].kind = "True"
    /\ provider[2] = "x"
    /\ pc[2] = "acq_test"
    /\ attempts[2] = 1
    /\ ~maker[2]
    /\ tokens["x"] = CapUnits - OneToken

\* The two states of a bucket.
HasCapacity(tk) == tk # Absent /\ tk >= OneToken

Exhausted(tk) == tk # Absent /\ tk < OneToken

\* The step is the decrement of a granted acquire on n.
GrantStep(n) ==
    lock # NoThread /\ pc[lock] = "acq_dec" /\ provider[lock] = n

\* The step is a refill of n after time has passed since its last one.
TimedRefillStep(n) ==
    /\ lock # NoThread
    /\ pc[lock] \in {"acq_refill", "avail_body"}
    /\ provider[lock] = n
    /\ now > last_update[n]

\* C21 as stated. Bucket state machine: a bucket moves from HAS_CAPACITY
\* to EXHAUSTED only through a successful acquire and from EXHAUSTED to
\* HAS_CAPACITY only through time-based refill; no other operation causes
\* either transition.
C21_TwoTransitionsOnly ==
    [][\A n \in Names :
        /\ (HasCapacity(tokens[n]) /\ Exhausted(tokens'[n])) => GrantStep(n)
        /\ (Exhausted(tokens[n]) /\ HasCapacity(tokens'[n])) =>
              TimedRefillStep(n)
    ]_vars

\* C21 as amended. A bucket moves from HAS_CAPACITY to EXHAUSTED only
\* through a successful acquire, and from EXHAUSTED to HAS_CAPACITY only
\* through time-based refill or through reset.
C21_TransitionsWithReset ==
    [][\A n \in Names :
        /\ (HasCapacity(tokens[n]) /\ Exhausted(tokens'[n])) => GrantStep(n)
        /\ (Exhausted(tokens[n]) /\ HasCapacity(tokens'[n])) =>
              \/ TimedRefillStep(n)
              \/ /\ lock # NoThread
                 /\ pc[lock] = "reset_body"
                 /\ n \in ResetTargets(provider[lock])
    ]_vars

\* C21 witness: a caller that slept on the exhausted bucket was granted
\* the token a refill accrued, which has exhausted the bucket again.
C21_Witness ==
    /\ pc[1] = "acq_granted"
    /\ sleeps[1] > 0
    /\ Exhausted(tokens["yfinance"])
    /\ last_update["yfinance"] > 0

\* C22 as stated. Singleton registry: get_throttler constructs at most one
\* APIThrottler instance, also when the first calls come from concurrent
\* threads, and returns that same instance to every caller.
C22_SingletonRegistry ==
    /\ instances <= 1
    /\ \A t \in Threads : result[t].kind = "throttler" => result[t].value = 1

\* C22 witness of the race: two instances were constructed, and the two
\* callers hold different ones.
C22_Witness ==
    /\ instances = 2
    /\ result[1].kind = "throttler"
    /\ result[2].kind = "throttler"
    /\ result[1].value # result[2].value

\* C23. No FIFO among waiters: a caller at line 135 can take the lock
\* whenever it is free, whoever else waits and since when, and the caller
\* that holds the lock and observes tokens >= 1 goes on to the decrement;
\* arrival order plays no part in the grant.
C23_NoFifoAmongWaiters ==
    \A t \in Threads :
        /\ (pc[t] = "acq_lock" /\ lock = NoThread) => ENABLED AcqLock(t)
        /\ (pc[t] = "acq_test" /\ HasToken(provider[t])) =>
               (lock = t /\ ENABLED (AcqTest(t) /\ pc'[t] = "acq_dec"))

\* C23 witness: a caller that began later has been granted the regenerated
\* token while the caller that began earlier, and has polled and slept, is
\* still waiting on the same provider.
C23_Witness ==
    /\ pc[2] = "acq_granted"
    /\ provider[2] = provider[1]
    /\ start_time[2] > start_time[1]
    /\ sleeps[2] = 0
    /\ pc[1] \in {"acq_lock", "acq_check", "acq_sleep"}
    /\ sleeps[1] > 0

\* An acquire call of t with a finite timeout is under way.
TimedCall(t) == pc[t] \in AcquirePcs /\ timeout[t] # NoTimeout

\* C24. Bounded wait terminates: provided time keeps advancing and the
\* lock is fair, every acquire call given a finite timeout eventually
\* returns, true or false, whatever the other caller does and even if the
\* bucket never regains a token for it.
C24_BoundedWaitTerminates ==
    \A t \in Threads : TimedCall(t) ~> (pc[t] = "finished")

\* C24 witness: a call with a positive timeout has returned false while
\* the other caller, with no timeout, is still waiting.
C24_Witness ==
    /\ pc[1] = "finished"
    /\ result[1].kind = "False"
    /\ timeout[1] > 0
    /\ pc[2] = "acq_sleep"
    /\ timeout[2] = NoTimeout

\* t waits in an acquire call with no timeout.
Waiting(t) == pc[t] \in AcquirePcs /\ timeout[t] = NoTimeout

\* Another caller has an acquire call under way on the provider of t.
OtherPending(t) ==
    \E u \in Threads \ {t} : pc[u] \in AcquirePcs /\ provider[u] = provider[t]

AvailPcs == AvailCS \cup {"avail_lock"}

\* C26. Provider independence: no step of acquire(p) or
\* availableTokens(p), granted, waiting or timed out, changes the tokens
\* or the _last_update of another provider q, and an attempt is denied
\* only when the bucket of its own provider holds less than one token.
C26_ProviderIndependence ==
    [][\A t \in Threads :
        /\ (pc[t] \in AcquirePcs \cup AvailPcs /\ pc'[t] # pc[t]) =>
              \A q \in Names \ {provider[t]} :
                  tokens'[q] = tokens[q] /\ last_update'[q] = last_update[q]
        /\ pc[t] = "acq_unlock" => ~HasToken(provider[t])
        /\ (pc[t] = "acq_test" /\ pc'[t] = "acq_unlock") =>
              ~HasToken(provider[t])
    ]_vars

\* C26 witness: one provider's bucket is exhausted and its caller has
\* just been denied, while at the same instant a caller of the other
\* provider was granted on its first attempt.
C26_Witness ==
    /\ now > 0
    /\ provider[1] = "x"
    /\ pc[1] = "acq_unlock"
    /\ Exhausted(tokens["x"])
    /\ provider[2] = "yfinance"
    /\ pc[2] = "finished"
    /\ result[2].kind = "True"
    /\ attempts[2] = 1
    /\ start_time[2] = now
    /\ last_update["yfinance"] = now
    /\ last_update["x"] = now

\* The step is a refill by t of the bucket of n, which exists.
RefillStep(t, n) ==
    /\ provider[t] = n
    /\ tokens[n] # Absent
    /\ \/ pc[t] = "acq_refill" /\ pc'[t] = "acq_test"
       \/ pc[t] = "avail_body" /\ pc'[t] = "avail_ret"

\* C27. Refill is path-independent: whatever refills (failed polls,
\* availableTokens calls) came since the last grant, reset or creation left
\* the bucket with tokens(t0) at t0, a refill at t1 leaves it with exactly
\* min(capacity, tokens(t0) + rate * (t1 - t0)), the result of a single
\* refill at t1.
C27_RefillPathIndependent ==
    [][\A t \in Threads : \A n \in Names : RefillStep(t, n) =>
        /\ tokens'[n] =
              Min(CapUnits, baseTok[n] + GetRateLimit(n) * (now - baseTime[n]))
        /\ last_update'[n] = now
        /\ baseTok'[n] = baseTok[n]
        /\ baseTime'[n] = baseTime[n]
    ]_vars

\* C27 witness: the bucket was emptied at time 0; a waiting caller polled
\* it at every tick and availableTokens read it in between, and the poll
\* at time 2 finds exactly the tokens two ticks accrue.
C27_Witness ==
    /\ now = 2
    /\ baseTok["yfinance"] = 0
    /\ baseTime["yfinance"] = 0
    /\ pc[1] = "acq_test"
    /\ attempts[1] >= 3
    /\ result[2].kind = "tokens"
    /\ result[2].value = GetRateLimit("yfinance")
    /\ tokens["yfinance"] = 2 * GetRateLimit("yfinance")

\* The places where a caller waits for the lock.
LockPcs == {"acq_lock", "avail_lock", "reset_lock"}

\* C28. Deadlock freedom: a caller holds the lock only inside a critical
\* section, where its next step is always possible, and every way out of
\* one (the grant path, the no-token path, availableTokens, reset) has
\* released it; so whenever a caller waits for the lock, either the lock
\* is free and the waiter can take it, or its holder can step.
C28_DeadlockFreedom ==
    /\ \A t \in Threads :
        /\ pc[t] \notin CriticalPcs => lock # t
        /\ lock = t => ENABLED Proceed(t)
        /\ pc[t] \in LockPcs =>
              /\ lock = NoThread => ENABLED TakeLock(t)
              /\ \E u \in Threads : ENABLED (Proceed(u) \/ TakeLock(u))

\* C28 witness: a caller that polled before waits for the lock again while
\* the other holds it on the grant path, about to return from inside the
\* critical section.
C28_Witness ==
    /\ pc[1] = "acq_lock"
    /\ sleeps[1] > 0
    /\ lock = 2
    /\ pc[2] = "acq_granted"

\* C29 as stated. Bounded response of a timed acquire: when taking the
\* lock costs no time, an acquire call with timeout t is never under way
\* later than t plus one polling interval after it began.
C29_BoundedResponse ==
    \A t \in Threads :
        TimedCall(t) => now - start_time[t] <= timeout[t] + SleepTicks

\* C29, amended. When taking the lock costs no time, the statements of the
\* loop cost none either and every sleep lasts exactly the polling
\* interval, an acquire call with timeout t is never under way later than
\* t plus one polling interval after it began, and a deadline check made
\* at t or later ends it.
C29_BoundedResponseOnTime ==
    \A t \in Threads : (TimedCall(t) /\ ~late[t]) =>
        /\ now - start_time[t] <= timeout[t] + SleepTicks
        /\ (pc[t] = "acq_check" /\ now - start_time[t] >= timeout[t])
              => ~ENABLED (AcqCheck(t) /\ pc'[t] = "acq_sleep")

\* C29 witness: a call with a positive timeout found no token, slept for
\* exactly one polling interval, found none again and stands at its
\* deadline check with the timeout used up.
C29_Witness ==
    \E t \in Threads :
        /\ pc[t] = "acq_check"
        /\ timeout[t] > 0
        /\ ~late[t]
        /\ sleeps[t] > 0
        /\ now - start_time[t] = timeout[t]

\* C30. Zero timeout acts as try-acquire: an acquire with timeout 0 that
\* finds at least 1 token after its refill goes on to the grant, whatever
\* time has passed since it began; the grant takes exactly one token and
\* the call returns true, having consumed one token in one attempt
\* without sleeping.
C30_ZeroTimeoutTryAcquire ==
    [][\A t \in Threads : timeout[t] = 0 =>
        /\ (pc[t] = "acq_test" /\ pc'[t] # "acq_test"
            /\ tokens[provider[t]] >= OneToken) => pc'[t] = "acq_dec"
        /\ (pc[t] = "acq_dec" /\ pc'[t] # "acq_dec") =>
              /\ pc'[t] = "acq_granted"
              /\ tokens'[provider[t]] = tokens[provider[t]] - OneToken
              /\ consumed'[t] = 1
        /\ (pc[t] = "acq_granted" /\ pc'[t] # "acq_granted") =>
              /\ result'[t].kind = "True"
              /\ tokens' = tokens
              /\ consumed'[t] = 1
              /\ attempts'[t] = 1
              /\ sleeps'[t] = 0
    ]_vars

\* C30 witness: of two calls with timeout 0, one found the bucket's last
\* token and returned true; the other found none and returned false; time
\* has passed since the first began.
C30_Witness ==
    /\ timeout[1] = 0
    /\ pc[1] = "finished"
    /\ result[1].kind = "True"
    /\ consumed[1] = 1
    /\ now > start_time[1]
    /\ timeout[2] = 0
    /\ result[2].kind = "False"
    /\ tokens["yfinance"] < OneToken

=============================================================================
